---- MODULE Spec2Model ----
(***************************************************************************)
(* Lot-based portfolio simulation engine of yfinance/investment_forecasting *)
(* (tjpapenfuss/alpaca_api).                                                *)
(*                                                                          *)
(* The repository holds two families of the same operations:                *)
(*   - the methods of class Portfolio (models/portfolio.py), whose holdings *)
(*     and lots carry the key 'shares';                                     *)
(*   - the module-level functions buy_position / sell_position              *)
(*     (utils/transaction.py), track_and_manage_positions                   *)
(*     (strategies/tax_loss_harvesting.py) and invest_available_cash        *)
(*     (utils/allocation.py), whose holdings and lots carry the keys        *)
(*     'initial_shares_purchased' and 'shares_remaining'.                   *)
(* A run uses one family (variable api): either family raises KeyError on   *)
(* the records of the other.  Both are modelled, each with its own record   *)
(* shape, and a KeyError / ZeroDivisionError is the outcome `raised`.       *)
(*                                                                          *)
(* Units.  Share counts are integers in hundredths of a share (the code     *)
(* rounds every share count to 2 decimals), prices are integers in cents,   *)
(* money is an integer in 1/10000 dollar (hundredths of a share x cents).   *)
(* Ratios the code keeps as floats (return_pct, prorated cost, gain_loss)    *)
(* are exact rationals [n, d].  record_gains_losses, which the functions    *)
(* import from utils/reporting.py, has no definition in the repository and  *)
(* is taken to touch nothing of the state below.  The write-only ledger     *)
(* fields description, gain_loss_pct and days_held are not part of the      *)
(* records.                                                                 *)
(***************************************************************************)
EXTENDS Integers, Sequences, FiniteSets, TLC

(***************************************************************************)
(* Inputs and bounds                                                        *)
(***************************************************************************)
Tickers == {"A", "B", "C"}

\* dict and list order of ticker symbols
TickerList == <<"A", "B", "C">>

\* self.portfolio_allocation of the run
portfolio_allocation == "equal"

\* allocation_weights tables handed to invest_available_cash (ticker -> weight,
\* as integer parts of their sum), and excluded_tickers lists
AllocationTables == { [A |-> 1, B |-> 1], [A |-> 1, B |-> 1, C |-> 1] }
ExcludedLists == { <<>>, <<"A">> }

\* ticker lists given to Portfolio.initialize_holdings (none: it is not called);
\* for the module-level functions, the tickers whose holding the caller supplies
SeedSets == { {}, {"A"}, {"A", "B"} }

\* share counts a caller asks to buy / to sell, in hundredths of a share
BuyShares == {1, 100}
SellShares == {50, 150}

\* deposits, in 1/10000 dollar
DepositAmounts == {12000}

\* number of lots the portfolio may collect, cash cap for a deposit,
\* ledger length beyond which no further call is made
MaxLots == 2
MaxCash == 12000
MaxTx == 3

\* sell_trigger, in percent
sell_trigger == -10

\* price tables (prices.loc[date]): one row per date of the simulated period,
\* ticker -> price in cents; a ticker
\* missing from a row has no price that day (absent column or NaN)
PriceTables ==
  { <<[A |-> 100, B |-> 40], [A |-> 80, B |-> 40], [A |-> 90, B |-> 40]>>,
    <<[A |-> 85, B |-> 33], [A |-> 100], [A |-> 90, B |-> 60]>>,
    <<[A |-> 160, B |-> 33], [A |-> 180, B |-> 33], [A |-> 150, B |-> 60]>> }

\* A second set of runs, with the amounts of the test suite (a deposit of 100
\* dollars, prices of 20 to 233 dollars, in the same units): the rebalance
\* buys only with more than 10 dollars of cash.  Ticker C is bought through
\* the allocation table but is not in self.tickers.
LargePriceTables ==
  { <<[A |-> 10000, B |-> 5000, C |-> 2000], [A |-> 23300, B |-> 5000, C |-> 2000],
      [A |-> 15000, B |-> 5000, C |-> 2500]>>,
    <<[A |-> 10000, B |-> 5000, C |-> 2000], [A |-> 8500, B |-> 5000],
      [A |-> 8000, B |-> 6000, C |-> 2000]>>,
    <<[A |-> 235000, B |-> 5000, C |-> 2000], [A |-> 455500, B |-> 6799, C |-> 2000],
      [A |-> 455500, B |-> 6799, C |-> 2200]>> }

\* the price tables of the runs whose self.tickers holds all three tickers
ThreeTickerTables ==
  { table \in LargePriceTables : table[1].A = 235000 }
LargeAllocationTables ==
  { [A |-> 1, B |-> 1], [A |-> 1, B |-> 1, C |-> 1], [A |-> 1, B |-> 1, C |-> 5] }
LargeDepositAmounts == {1000000}
LargeMaxLots == 3
LargeMaxCash == 1000000
LargeMaxTx == 4

\* number of snapshots a run may collect
MaxHistory == 2

\* number of calendar years the dates of the time trigger are drawn from
TriggerYears == 2

\* the calendar dates of the rows: days counts from start_date, the first row
RowDates ==
  << [year |-> 2024, month |-> 1, days |-> 0],
     [year |-> 2024, month |-> 3, days |-> 60],
     [year |-> 2024, month |-> 4, days |-> 91] >>

\* self.rebalance_frequency and self.rebalance_threshold (percent) of the run
rebalance_frequency == "quarterly"
rebalance_threshold == 5

(***************************************************************************)
(* Arithmetic                                                               *)
(***************************************************************************)
Abs(x) == IF x < 0 THEN 0 - x ELSE x

RECURSIVE GCD(_, _)
GCD(a, b) == IF b = 0 THEN a ELSE GCD(b, a % b)

\* the rational n/d (d > 0) in lowest terms
Rat(n, d) ==
  LET g == GCD(Abs(n), d)
  IN  IF g = 0 THEN [n |-> 0, d |-> 1] ELSE [n |-> n \div g, d |-> d \div g]

RatInt(i) == [n |-> i, d |-> 1]
RatAdd(x, y) == Rat(x.n * y.d + y.n * x.d, x.d * y.d)
RatLe(x, y) == x.n * y.d <= y.n * x.d

\* Python round(): nearest integer of n/d (d > 0), ties to the even one
RoundHalfEven(n, d) ==
  LET q == n \div d
      r == n % d
  IN  IF 2 * r < d THEN q
      ELSE IF 2 * r > d THEN q + 1
      ELSE IF q % 2 = 0 THEN q ELSE q + 1

\* round(10000 * n/d), by long division (10000 * n may not fit)
RoundScaled(n, d) ==
  LET q == n \div d
      r == n % d
      a == (r * 100) \div d
      r1 == (r * 100) % d
      b == (r1 * 100) \div d
      r2 == (r1 * 100) % d
      base == q * 10000 + a * 100 + b
  IN  IF 2 * r2 < d THEN base
      ELSE IF 2 * r2 > d THEN base + 1
      ELSE IF base % 2 = 0 THEN base ELSE base + 1

\* round(x, 2) of an amount of money held in 1/10000 dollar
Round2(m) == 100 * RoundHalfEven(m, 100)

(***************************************************************************)
(* State                                                                    *)
(***************************************************************************)
VARIABLES
  api,           \* "Portfolio": the class methods; "functions": the module-level functions
  prices,        \* the price table of the run
  today,         \* the date the caller passes (index into prices)
  cash,          \* Portfolio.cash
  holdings,      \* Portfolio.holdings: ticker -> holding record
  hkeys,         \* insertion order of the keys of Portfolio.holdings
  transactions,  \* the ledger list every operation appends to
  raised,        \* "none", or the exception that ended the run
  last,          \* the latest call: operation, arguments, what it returned
  last_rebalance_date, \* Portfolio.last_rebalance_date: <<>> is None, <<d>> the date d
  portfolio_history    \* Portfolio.portfolio_history: the list of snapshots

vars == <<api, prices, today, cash, holdings, hkeys, transactions, raised, last,
          last_rebalance_date, portfolio_history>>

\* the run uses the second set of inputs
Large == prices \in LargePriceTables

\* self.tickers of the run
tickers == IF prices \in ThreeTickerTables THEN <<"A", "B", "C">> ELSE <<"A", "B">>

\* the portfolio as the operations below pass it along
Pf == [cash |-> cash, holdings |-> holdings, hkeys |-> hkeys,
       transactions |-> transactions, raised |-> raised]

SetPf(p) ==
  /\ cash' = p.cash
  /\ holdings' = p.holdings
  /\ hkeys' = p.hkeys
  /\ transactions' = p.transactions
  /\ raised' = p.raised

\* prices.loc[date]
date_prices == prices[today + 1]
HasPrice(row, t) == t \in DOMAIN row

\* d[k] = v on a dict: a new key goes to the end of the key order
PutHolding(p, t, h) ==
  [p EXCEPT !.holdings = [k \in (DOMAIN p.holdings) \cup {t} |->
                             IF k = t THEN h ELSE p.holdings[k]],
            !.hkeys = IF t \in DOMAIN p.holdings THEN p.hkeys ELSE Append(p.hkeys, t)]

Raise(p, e) == [p EXCEPT !.raised = e]

\* the holding a caller of the module-level functions has to supply: they
\* read holding['shares_remaining'], which no code of the repository creates
SeedHolding ==
  [initial_shares_purchased |-> 0, shares_remaining |-> 0, investments |-> <<>>,
   cost_basis |-> RatInt(0)]

RECURSIVE SeqOf(_, _)
SeqOf(list, S) ==
  IF list = <<>> THEN <<>>
  ELSE IF Head(list) \in S THEN <<Head(list)>> \o SeqOf(Tail(list), S)
  ELSE SeqOf(Tail(list), S)

\* Portfolio.initialize_holdings
initialize_holdings(S) ==
  [t \in S |-> [shares |-> 0, cost_basis |-> RatInt(0), investments |-> <<>>]]

\* Portfolio.__init__: no cash, no holdings; then the holdings of the run
Init ==
  /\ api \in {"Portfolio", "functions"}
  /\ prices \in PriceTables
  /\ today = 0
  /\ cash = 0
  /\ \E seeded \in SeedSets :
       /\ holdings = IF api = "Portfolio" THEN initialize_holdings(seeded)
                     ELSE [t \in seeded |-> SeedHolding]
       /\ hkeys = SeqOf(TickerList, seeded)
  /\ transactions = <<>>
  /\ raised = "none"
  /\ last = [op |-> "init"]
  /\ last_rebalance_date = <<>>
  /\ portfolio_history = <<>>

(***************************************************************************)
(* Portfolio.add_cash                                                       *)
(***************************************************************************)
add_cash(p, amount) == [p EXCEPT !.cash = p.cash + amount]

\* "Update average cost basis": (current_basis * (total_shares - shares_to_buy)
\* + actual_investment) / total_shares, in cents a share
new_basis(current_basis, total_shares, shares_to_buy, actual_investment) ==
  LET held == total_shares - shares_to_buy
      g == GCD(held, current_basis.d)
  IN  Rat(current_basis.n * (held \div g) + actual_investment * (current_basis.d \div g),
          (current_basis.d \div g) * total_shares)

(***************************************************************************)
(* Portfolio.buy_position (models/portfolio.py)                             *)
(***************************************************************************)
\* lines 224-265 (and the same statements inlined at lines 152-194)
Portfolio_purchase(p, ticker, shares, price, date) ==
  LET actual_investment == shares * price
      p1 == IF ticker \in DOMAIN p.holdings THEN p
            ELSE PutHolding(p, ticker,
                   [shares |-> 0, investments |-> <<>>, cost_basis |-> RatInt(0)])
      h == p1.holdings[ticker]
      total_shares == h.shares + shares
      purchase_record ==
        [date |-> date, shares |-> shares, price |-> price,
         cost |-> actual_investment, current_value |-> actual_investment,
         return_pct |-> RatInt(0), days_held |-> 0, sold |-> FALSE]
      h2 == [h EXCEPT !.shares = total_shares,
                      !.investments = Append(h.investments, purchase_record),
                      !.cost_basis = new_basis(h.cost_basis, total_shares, shares,
                                               actual_investment)]
  IN  [PutHolding(p1, ticker, h2) EXCEPT
         !.cash = p.cash - actual_investment,
         !.transactions = Append(p.transactions,
            [date |-> date, type |-> "buy", ticker |-> ticker,
             shares |-> shares, price |-> price, amount |-> actual_investment])]

\* the share count bought after the cash check of lines 216-222
Portfolio_buy_shares(available, shares_to_buy, price) ==
  IF shares_to_buy * price > available THEN RoundHalfEven(available, price)
  ELSE shares_to_buy

\* a buy that goes ahead with a share count of 0
Portfolio_buy_position_of_nothing(p, ticker, shares_to_buy, price, date) ==
  LET shares == Portfolio_buy_shares(p.cash, shares_to_buy, price)
  IN  IF p.raised # "none" THEN p
      ELSE IF shares >= 0 THEN Portfolio_purchase(p, ticker, shares, price, date)
      ELSE p

Portfolio_buy_position(p, ticker, shares_to_buy, price, date) ==
  LET shares == Portfolio_buy_shares(p.cash, shares_to_buy, price)
  IN  IF p.raised # "none" THEN p
      ELSE IF shares > 0 THEN Portfolio_purchase(p, ticker, shares, price, date)
      ELSE p

(***************************************************************************)
(* buy_position (utils/transaction.py)                                      *)
(***************************************************************************)
\* the share count bought after the cash check of lines 23-29
buy_shares(available, shares_to_buy, price) ==
  IF Round2(shares_to_buy * price) > available THEN RoundHalfEven(available, price)
  ELSE shares_to_buy

buy_position(p, ticker, shares_to_buy, price, date) ==
  LET shares == buy_shares(p.cash, shares_to_buy, price)
      actual_investment == Round2(shares * price)
      p1 == IF ticker \in DOMAIN p.holdings THEN p
            ELSE PutHolding(p, ticker,
                   [initial_shares_purchased |-> 0, investments |-> <<>>,
                    cost_basis |-> RatInt(0)])
      h == p1.holdings[ticker]
      \* line 41 has run when line 42 raises
      h1 == [h EXCEPT !.initial_shares_purchased = h.initial_shares_purchased + shares]
      total_shares == h.shares_remaining + shares
      purchase_record ==
        [date |-> date, initial_shares_purchased |-> shares,
         shares_remaining |-> shares, price |-> price,
         cost |-> actual_investment, current_value |-> actual_investment,
         return_pct |-> 0, days_held |-> 0, sold |-> FALSE]
      h2 == [h1 EXCEPT !.shares_remaining = total_shares,
                       !.investments = Append(h.investments, purchase_record),
                       !.cost_basis = new_basis(h.cost_basis, total_shares, shares,
                                                actual_investment)]
      p2 == PutHolding(p1, ticker, h2)
  IN  IF p.raised # "none" THEN p
      ELSE IF shares > 0
      THEN IF "shares_remaining" \notin DOMAIN h
           THEN Raise(PutHolding(p1, ticker, h1), "KeyError")
           ELSE [p2 EXCEPT !.cash = p.cash - actual_investment,
                           !.transactions = Append(p.transactions,
                              [date |-> date, type |-> "buy", ticker |-> ticker,
                               shares |-> shares, price |-> price,
                               amount |-> actual_investment])]
      ELSE p

(***************************************************************************)
(* list.sort(key=...): stable, ascending in key (reverse=True is the        *)
(* negated key: equal keys keep their order either way)                     *)
(***************************************************************************)
RECURSIVE InsertKey(_, _, _)
InsertKey(x, s, key) ==
  IF s = <<>> THEN <<x>>
  ELSE IF key[x] < key[Head(s)] THEN <<x>> \o s
  ELSE <<Head(s)>> \o InsertKey(x, Tail(s), key)

RECURSIVE SortKey(_, _)
SortKey(s, key) ==
  IF s = <<>> THEN <<>>
  ELSE InsertKey(s[Len(s)], SortKey(SubSeq(s, 1, Len(s) - 1), key), key)

\* the indices i of list (ascending) with Keep[i]
RECURSIVE Filter(_, _)
Filter(idx, Keep) ==
  IF idx = <<>> THEN <<>>
  ELSE IF Keep[Head(idx)] THEN <<Head(idx)>> \o Filter(Tail(idx), Keep)
  ELSE Filter(Tail(idx), Keep)

Indices(list) == [i \in 1..Len(list) |-> i]

(***************************************************************************)
(* Portfolio.sell_position (models/portfolio.py)                            *)
(***************************************************************************)
\* a queue that also holds the lots already sold
Portfolio_selling_queue_sold_too(investments) ==
  SortKey(Indices(investments), [i \in 1..Len(investments) |-> 0 - investments[i].date])

\* active_investments, most recent purchase date first
Portfolio_selling_queue(investments) ==
  SortKey(Filter(Indices(investments), [i \in 1..Len(investments) |-> ~investments[i].sold]),
          [i \in 1..Len(investments) |-> 0 - investments[i].date])

\* a full sale that also sets the share count of the lot to 0
Portfolio_lot_after_sale_zeroed(investment, sold_shares) ==
  IF investment.shares <= sold_shares
  THEN [investment EXCEPT !.sold = TRUE, !.shares = 0]
  ELSE [investment EXCEPT !.shares = investment.shares - sold_shares]

\* a partial sale that also takes the sold part out of the cost of the lot
Portfolio_lot_after_sale_prorated(investment, sold_shares) ==
  IF investment.shares <= sold_shares THEN [investment EXCEPT !.sold = TRUE]
  ELSE [investment EXCEPT !.shares = investment.shares - sold_shares,
                          !.cost = investment.price * (investment.shares - sold_shares)]

\* lines 311-320: the lot after sold_shares of it are sold
Portfolio_lot_after_sale(investment, sold_shares) ==
  IF investment.shares <= sold_shares THEN [investment EXCEPT !.sold = TRUE]
  ELSE [investment EXCEPT !.shares = investment.shares - sold_shares]

\* a sale that leaves the holding's share count as it was
Portfolio_holding_after_sale_total_kept(h, investments, actual_shares_sold) ==
  [h EXCEPT !.investments = investments]

\* lines 341-342: the holding after actual_shares_sold of it are sold
Portfolio_holding_after_sale(h, investments, actual_shares_sold) ==
  [h EXCEPT !.investments = investments, !.shares = h.shares - actual_shares_sold]

RECURSIVE Portfolio_sell_loop(_, _, _, _)
Portfolio_sell_loop(queue, investments, remaining_to_sell, price) ==
  IF queue = <<>> \/ remaining_to_sell <= 0
  THEN [investments |-> investments, remaining_to_sell |-> remaining_to_sell,
        realized_gain_loss |-> RatInt(0)]
  ELSE LET i == Head(queue)
           investment == investments[i]
           full == investment.shares <= remaining_to_sell
           sold_shares == IF full THEN investment.shares ELSE remaining_to_sell
           inv2 == Portfolio_lot_after_sale(investment, sold_shares)
           lot_proceeds == sold_shares * price
           \* cost / investment['shares'] reads the shares left after the decrement
           lot_cost == Rat(sold_shares * investment.cost, inv2.shares)
           lot_gain_loss == Rat(lot_proceeds * lot_cost.d - lot_cost.n, lot_cost.d)
           rest == Portfolio_sell_loop(Tail(queue), [investments EXCEPT ![i] = inv2],
                                       remaining_to_sell - sold_shares, price)
       IN  [rest EXCEPT !.realized_gain_loss = RatAdd(lot_gain_loss, rest.realized_gain_loss)]

Portfolio_sell_position(p, ticker, shares_to_sell, price, date) ==
  IF p.raised # "none" \/ ticker \notin DOMAIN p.holdings THEN p
  ELSE
    LET h == p.holdings[ticker]
        r == Portfolio_sell_loop(Portfolio_selling_queue(h.investments), h.investments,
                                 shares_to_sell, price)
        actual_shares_sold == shares_to_sell - r.remaining_to_sell
        sale_proceeds == actual_shares_sold * price
        h2 == Portfolio_holding_after_sale(h, r.investments, actual_shares_sold)
        p2 == PutHolding(p, ticker, h2)
    IN  IF actual_shares_sold > 0
        THEN [p2 EXCEPT !.cash = p.cash + sale_proceeds,
                        !.transactions = Append(p.transactions,
                           [date |-> date, type |-> "sell", ticker |-> ticker,
                            shares |-> actual_shares_sold, price |-> price,
                            amount |-> sale_proceeds,
                            gain_loss |-> r.realized_gain_loss])]
        ELSE PutHolding(p, ticker, [h EXCEPT !.investments = r.investments])

(***************************************************************************)
(* sell_position (utils/transaction.py)                                     *)
(***************************************************************************)
\* a queue of the open lots, oldest first, whatever their purchase price
selling_queue_oldest_first(investments, price) ==
  LET n == Len(investments)
  IN  SortKey(Filter(Indices(investments), [i \in 1..n |-> ~investments[i].sold]),
              [i \in 1..n |-> investments[i].date])

\* loss lots, highest purchase price first, then the other lots, oldest first
selling_queue(investments, price) ==
  LET n == Len(investments)
      loss_investments ==
        Filter(Indices(investments),
               [i \in 1..n |-> ~investments[i].sold /\ investments[i].price > price])
      gain_investments ==
        Filter(Indices(investments),
               [i \in 1..n |-> ~investments[i].sold /\ investments[i].price <= price])
  IN  SortKey(loss_investments, [i \in 1..n |-> 0 - investments[i].price])
      \o SortKey(gain_investments, [i \in 1..n |-> investments[i].date])

\* a sale that takes every share of each lot it reaches
sold_shares_of_whole_lot(investment, remaining_to_sell) ==
  investment.shares_remaining

\* lines 131-139: the share count taken from a lot
sold_shares_of(investment, remaining_to_sell) ==
  IF investment.shares_remaining <= remaining_to_sell
  THEN investment.shares_remaining ELSE remaining_to_sell

RECURSIVE sell_loop(_, _, _, _, _, _)
sell_loop(queue, investments, remaining_to_sell, price, ticker, date) ==
  IF queue = <<>> \/ remaining_to_sell <= 0
  THEN [investments |-> investments, remaining_to_sell |-> remaining_to_sell,
        appended |-> <<>>]
  ELSE LET i == Head(queue)
           investment == investments[i]
           full == investment.shares_remaining <= remaining_to_sell
           sold_shares == sold_shares_of(investment, remaining_to_sell)
           inv2 == IF full THEN [investment EXCEPT !.sold = TRUE]
                   ELSE [investment EXCEPT
                           !.shares_remaining = investment.shares_remaining - sold_shares]
           lot_proceeds == Round2(sold_shares * price)
           lot_cost == Round2(sold_shares * investment.price)
           lot_gain_loss == lot_proceeds - lot_cost
           rest == sell_loop(Tail(queue), [investments EXCEPT ![i] = inv2],
                             remaining_to_sell - sold_shares, price, ticker, date)
       IN  [rest EXCEPT !.appended =
              <<[date |-> date, type |-> "sell", ticker |-> ticker,
                 shares |-> sold_shares, price |-> price, amount |-> lot_proceeds,
                 gain_loss |-> RatInt(lot_gain_loss)]>> \o rest.appended]

sell_position(p, ticker, shares_to_sell, price, date) ==
  IF p.raised # "none" \/ ticker \notin DOMAIN p.holdings THEN p
  ELSE
    LET h == p.holdings[ticker]
        r == sell_loop(selling_queue(h.investments, price), h.investments,
                       shares_to_sell, price, ticker, date)
        actual_shares_sold == shares_to_sell - r.remaining_to_sell
        sale_proceeds == actual_shares_sold * price
        p1 == [PutHolding(p, ticker, [h EXCEPT !.investments = r.investments])
                 EXCEPT !.transactions = p.transactions \o r.appended]
    IN  IF actual_shares_sold > 0
        THEN IF "shares_remaining" \notin DOMAIN h THEN Raise(p1, "KeyError")
             ELSE [PutHolding(p1, ticker,
                      [h EXCEPT !.investments = r.investments,
                                !.shares_remaining = h.shares_remaining - actual_shares_sold])
                     EXCEPT !.cash = p.cash + sale_proceeds]
        ELSE p1

(***************************************************************************)
(* Portfolio.track_and_manage_positions (models/portfolio.py)               *)
(***************************************************************************)
\* a trigger that leaves out a return of exactly sell_trigger
Portfolio_sell_triggered_below(return_pct) ==
  ~RatLe(RatInt(sell_trigger), return_pct)

\* line 550: investment['return_pct'] <= sell_trigger
Portfolio_sell_triggered(return_pct) == RatLe(return_pct, RatInt(sell_trigger))

\* a pass that looks at the sold lots again
Portfolio_lot_skipped_never(investment) == FALSE

\* lines 536-537: if investment['sold']: continue
Portfolio_lot_skipped(investment) == investment.sold

\* the lots i.. of one holding; sold: whether a lot of the ticker was sold so far
RECURSIVE Portfolio_track_lots(_, _, _, _, _, _)
Portfolio_track_lots(p, ticker, i, current_price, date, sold) ==
  LET h == p.holdings[ticker]
  IN
  IF i > Len(h.investments) THEN [p |-> p, ticker_sold |-> sold]
  ELSE
    LET investment == h.investments[i]
        current_value == investment.shares * current_price
        return_pct == Rat((current_value - investment.cost) * 100, investment.cost)
        inv1 == [investment EXCEPT !.days_held = date - investment.date,
                                   !.current_value = current_value,
                                   !.return_pct = return_pct]
        trigger == Portfolio_sell_triggered(return_pct)
        sale_proceeds == investment.shares * current_price
        realized_loss == sale_proceeds - investment.cost
        h2 == IF trigger
              THEN [h EXCEPT !.investments[i] = [inv1 EXCEPT !.sold = TRUE],
                             !.shares = h.shares - investment.shares]
              ELSE [h EXCEPT !.investments[i] = inv1]
        p1 == PutHolding(p, ticker, h2)
        p2 == IF trigger
              THEN [p1 EXCEPT !.cash = p.cash + sale_proceeds,
                              !.transactions = Append(p.transactions,
                                 [date |-> date, type |-> "sell", ticker |-> ticker,
                                  shares |-> investment.shares, price |-> current_price,
                                  amount |-> sale_proceeds,
                                  gain_loss |-> RatInt(realized_loss)])]
              ELSE p1
    IN  IF Portfolio_lot_skipped(investment)
        THEN Portfolio_track_lots(p, ticker, i + 1, current_price, date, sold)
        ELSE Portfolio_track_lots(p2, ticker, i + 1, current_price, date, sold \/ trigger)

RECURSIVE Portfolio_track_holdings(_, _, _, _, _)
Portfolio_track_holdings(p, keys, row, date, sold_tickers) ==
  IF keys = <<>> THEN [p |-> p, sold_tickers |-> sold_tickers]
  ELSE IF ~HasPrice(row, Head(keys))
  THEN Portfolio_track_holdings(p, Tail(keys), row, date, sold_tickers)
  ELSE LET r == Portfolio_track_lots(p, Head(keys), 1, row[Head(keys)], date, FALSE)
       IN  Portfolio_track_holdings(r.p, Tail(keys), row, date,
             IF r.ticker_sold THEN Append(sold_tickers, Head(keys)) ELSE sold_tickers)

Portfolio_track_and_manage_positions(p, row, date) ==
  Portfolio_track_holdings(p, p.hkeys, row, date, <<>>)

(***************************************************************************)
(* track_and_manage_positions (strategies/tax_loss_harvesting.py)           *)
(***************************************************************************)
RECURSIVE track_lots(_, _, _, _, _, _)
track_lots(p, ticker, i, current_price, date, sold) ==
  LET h == p.holdings[ticker]
  IN
  IF p.raised # "none" \/ i > Len(h.investments) THEN [p |-> p, ticker_sold |-> sold]
  ELSE
    LET investment == h.investments[i]
        current_value == Round2(investment.shares_remaining * current_price)
        investment_cost_prorated ==
          Rat(investment.cost * investment.shares_remaining,
              investment.initial_shares_purchased)
        \* round(((current_value / investment_cost_prorated) - 1) * 100, 2),
        \* kept in hundredths of a percent
        ratio == Rat(current_value * investment_cost_prorated.d - investment_cost_prorated.n,
                     investment_cost_prorated.n)
        return_pct == RoundScaled(ratio.n, ratio.d)
        inv0 == [investment EXCEPT !.days_held = date - investment.date,
                                   !.current_value = current_value]
        inv1 == [inv0 EXCEPT !.return_pct = return_pct]
        trigger == return_pct <= sell_trigger * 100
        sale_proceeds == Round2(investment.shares_remaining * current_price)
        realized_loss ==
          Rat(sale_proceeds * investment_cost_prorated.d - investment_cost_prorated.n,
              investment_cost_prorated.d)
        h2 == IF trigger
              THEN [h EXCEPT !.investments[i] = [inv1 EXCEPT !.sold = TRUE],
                             !.shares_remaining =
                                h.shares_remaining - investment.shares_remaining]
              ELSE [h EXCEPT !.investments[i] = inv1]
        p1 == PutHolding(p, ticker, h2)
        p2 == IF trigger
              THEN [p1 EXCEPT !.cash = p.cash + sale_proceeds,
                              !.transactions = Append(p.transactions,
                                 [date |-> date, type |-> "sell", ticker |-> ticker,
                                  shares |-> investment.shares_remaining,
                                  price |-> current_price, amount |-> sale_proceeds,
                                  gain_loss |-> realized_loss])]
              ELSE p1
    IN  IF investment.sold
        THEN track_lots(p, ticker, i + 1, current_price, date, sold)
        ELSE IF investment_cost_prorated.n = 0
        THEN [p |-> Raise(PutHolding(p, ticker, [h EXCEPT !.investments[i] = inv0]),
                          "ZeroDivisionError"),
              ticker_sold |-> sold]
        ELSE track_lots(p2, ticker, i + 1, current_price, date, sold \/ trigger)

RECURSIVE track_holdings(_, _, _, _, _)
track_holdings(p, keys, row, date, sold_tickers) ==
  IF keys = <<>> \/ p.raised # "none" THEN [p |-> p, sold_tickers |-> sold_tickers]
  ELSE IF ~HasPrice(row, Head(keys))
  THEN track_holdings(p, Tail(keys), row, date, sold_tickers)
  ELSE LET r == track_lots(p, Head(keys), 1, row[Head(keys)], date, FALSE)
       IN  track_holdings(r.p, Tail(keys), row, date,
             IF r.ticker_sold THEN Append(sold_tickers, Head(keys)) ELSE sold_tickers)

track_and_manage_positions(p, row, date) ==
  track_holdings(p, p.hkeys, row, date, <<>>)

(***************************************************************************)
(* invest_available_cash: Portfolio method and utils/allocation.py          *)
(***************************************************************************)
\* a list that keeps the excluded tickers
Without_nothing(list, excluded) == list

RECURSIVE Without(_, _)
Without(list, excluded) ==
  IF list = <<>> THEN <<>>
  ELSE IF \E i \in 1..Len(excluded) : excluded[i] = Head(list)
  THEN Without(Tail(list), excluded)
  ELSE <<Head(list)>> \o Without(Tail(list), excluded)

RECURSIVE SumOver(_, _)
SumOver(w, keys) == IF keys = <<>> THEN 0 ELSE w[Head(keys)] + SumOver(w, Tail(keys))

\* a table that keeps the excluded tickers
adjusted_keys_with_excluded(allocation_weights, excluded_tickers) ==
  SeqOf(TickerList, DOMAIN allocation_weights)

\* adjusted_weights: the table without the excluded tickers, each weight
\* float(f"{v/weight_sum:.4f}") in 1/10000 when weight_sum > 0
adjusted_keys(allocation_weights, excluded_tickers) ==
  Without(SeqOf(TickerList, DOMAIN allocation_weights), excluded_tickers)

adjusted_weights(allocation_weights, excluded_tickers) ==
  LET keys == adjusted_keys(allocation_weights, excluded_tickers)
      weight_sum == SumOver(allocation_weights, keys)
  IN  [k \in {keys[i] : i \in 1..Len(keys)} |->
         IF weight_sum > 0 THEN RoundHalfEven(allocation_weights[k] * 10000, weight_sum)
         ELSE allocation_weights[k] * 10000]

\* math.floor(available_cash * weight * 100) / 100, in 1/10000 dollar
investment_amount(available_cash, weight) ==
  100 * ((((available_cash \div 100) * weight)
          + (((available_cash % 100) * weight) \div 100)) \div 10000)

RECURSIVE Portfolio_invest_loop(_, _, _, _, _, _)
Portfolio_invest_loop(p, keys, w, available_cash, row, date) ==
  IF keys = <<>> THEN p
  ELSE LET ticker == Head(keys)
           shares_to_buy ==
             RoundHalfEven(investment_amount(available_cash, w[ticker]), row[ticker])
       IN  IF ~HasPrice(row, ticker)
           THEN Portfolio_invest_loop(p, Tail(keys), w, available_cash, row, date)
           ELSE IF shares_to_buy >= 1
           THEN Portfolio_invest_loop(
                  Portfolio_purchase(p, ticker, shares_to_buy, row[ticker], date),
                  Tail(keys), w, available_cash, row, date)
           ELSE Portfolio_invest_loop(p, Tail(keys), w, available_cash, row, date)

Portfolio_invest_available_cash(p, allocation_weights, row, date, excluded_tickers) ==
  IF p.raised # "none" \/ p.cash <= 0 THEN p
  ELSE Portfolio_invest_loop(p, adjusted_keys(allocation_weights, excluded_tickers),
                             adjusted_weights(allocation_weights, excluded_tickers),
                             p.cash, row, date)

RECURSIVE invest_loop(_, _, _, _, _, _)
invest_loop(p, keys, w, available_cash, row, date) ==
  IF keys = <<>> \/ p.raised # "none" THEN p
  ELSE LET ticker == Head(keys)
           shares_to_buy == investment_amount(available_cash, w[ticker]) \div row[ticker]
       IN  IF ~HasPrice(row, ticker)
           THEN invest_loop(p, Tail(keys), w, available_cash, row, date)
           ELSE IF shares_to_buy >= 1
           THEN invest_loop(buy_position(p, ticker, shares_to_buy, row[ticker], date),
                            Tail(keys), w, available_cash, row, date)
           ELSE invest_loop(p, Tail(keys), w, available_cash, row, date)

invest_available_cash(p, allocation_weights, row, date, excluded_tickers) ==
  IF p.raised # "none" \/ p.cash <= 0 THEN p
  ELSE invest_loop(p, adjusted_keys(allocation_weights, excluded_tickers),
                   adjusted_weights(allocation_weights, excluded_tickers),
                   p.cash, row, date)

(***************************************************************************)
(* Portfolio.calculate_total_value, calculate_allocation_weights,           *)
(* perform_rebalance (models/portfolio.py)                                  *)
(***************************************************************************)
RECURSIVE holdings_value(_, _, _)
holdings_value(p, keys, row) ==
  IF keys = <<>> THEN 0
  ELSE (IF HasPrice(row, Head(keys)) THEN p.holdings[Head(keys)].shares * row[Head(keys)]
        ELSE 0)
       + holdings_value(p, Tail(keys), row)

\* a total value that leaves the cash out
calculate_total_value_without_cash(p, row) == holdings_value(p, p.hkeys, row)

calculate_total_value(p, row) == p.cash + holdings_value(p, p.hkeys, row)

\* Portfolio.update_portfolio_history: the history with one more snapshot
update_portfolio_history(p, history, row, closest_date) ==
  LET portfolio_value == calculate_total_value(p, row)
  IN  Append(history, [date |-> closest_date,
                       cash |-> p.cash,
                       investments_value |-> portfolio_value - p.cash,
                       total_value |-> portfolio_value])

\* 'equal': weight 1/len(tickers) each, kept as the part 1 of len(tickers)
calculate_allocation_weights ==
  [t \in {tickers[i] : i \in 1..Len(tickers)} |-> 1]
allocation_denominator == Len(tickers)

\* a sell phase that sells nothing
rebalance_sell_nothing(p, keys, current_values, target_keys, w, W, total_value, rd) == p

\* "Identify positions to sell (overweight)": lines 404-416
RECURSIVE rebalance_sell(_, _, _, _, _, _, _, _)
rebalance_sell(p, keys, current_values, target_keys, w, W, total_value, rd) ==
  IF keys = <<>> THEN p
  ELSE
    LET ticker == Head(keys)
        row == rd.row
        current_value == current_values[ticker]
        \* current_value > target_value * 1.02
        over == current_value * W * 100 > total_value * w[ticker] * 102
        shares_to_sell ==
          RoundHalfEven(current_value * W - total_value * w[ticker], W * row[ticker])
        p1 == IF ~(\E i \in 1..Len(target_keys) : target_keys[i] = ticker)
              THEN Portfolio_sell_position(p, ticker, p.holdings[ticker].shares,
                                           row[ticker], rd.date)
              ELSE IF over /\ shares_to_sell > 1
              THEN Portfolio_sell_position(p, ticker, shares_to_sell, row[ticker], rd.date)
              ELSE p
    IN  rebalance_sell(p1, Tail(keys), current_values, target_keys, w, W, total_value, rd)

\* "Now buy underweight positions with available cash": lines 419-435
RECURSIVE rebalance_buy(_, _, _, _, _, _, _)
rebalance_buy(p, keys, current_values, w, W, total_value, rd) ==
  IF keys = <<>> THEN p
  ELSE
    LET ticker == Head(keys)
        row == rd.row
        current_value == IF ticker \in DOMAIN current_values
                         THEN current_values[ticker] ELSE 0
        \* current_value < target_value * 0.98
        under == current_value * W * 100 < total_value * w[ticker] * 98
        \* amount_to_buy = min(target_value - current_value, cash), as a fraction of W
        gap == total_value * w[ticker] - current_value * W
        amount_n == IF gap < p.cash * W THEN gap ELSE p.cash * W
        shares_to_buy == RoundHalfEven(amount_n, W * row[ticker])
        p1 == IF ~(\E i \in 1..Len(rd.excluded) : rd.excluded[i] = ticker)
                 /\ HasPrice(row, ticker) /\ under
                 /\ shares_to_buy >= 1 /\ amount_n > 100000 * W
              THEN Portfolio_buy_position(p, ticker, shares_to_buy, row[ticker], rd.date)
              ELSE p
    IN  rebalance_buy(p1, Tail(keys), current_values, w, W, total_value, rd)

perform_rebalance(p, row, date, excluded_tickers) ==
  LET total_value == calculate_total_value(p, row)
      target_allocation == calculate_allocation_weights
      priced == SeqOf(p.hkeys, DOMAIN row)
      current_values == [t \in {priced[i] : i \in 1..Len(priced)} |->
                           p.holdings[t].shares * row[t]]
      target_keys == Without(SeqOf(TickerList, DOMAIN target_allocation), excluded_tickers)
      W == SumOver(target_allocation, target_keys)
      rd == [row |-> row, date |-> date, excluded |-> excluded_tickers]
      p1 == rebalance_sell(p, priced, current_values, target_keys, target_allocation,
                           W, total_value, rd)
  IN  IF p.raised # "none" THEN p
      ELSE IF target_keys # <<>> /\ W = 0 THEN Raise(p, "ZeroDivisionError")
      ELSE IF p1.cash > 100000
      THEN rebalance_buy(p1, target_keys, current_values, target_allocation,
                         W, total_value, rd)
      ELSE p1

(***************************************************************************)
(* Portfolio.check_and_rebalance (models/portfolio.py)                      *)
(***************************************************************************)
quarter(month) == (month - 1) \div 3 + 1

\* the elapsed-days reading of the frequency: a month is 30 days, a quarter 90,
\* a year 365
time_trigger_elapsed_days(frequency, current_date, first_date, last_rebalance) ==
  IF last_rebalance = <<>>
  THEN current_date.days - first_date.days >= 90
  ELSE current_date.days - last_rebalance[1].days
         >= (IF frequency = "monthly" THEN 30
             ELSE IF frequency = "quarterly" THEN 90 ELSE 365)

\* lines 459-480: the time trigger on dates; last_rebalance is <<>> for None
time_trigger(frequency, current_date, first_date, last_rebalance) ==
  IF last_rebalance = <<>>
  THEN current_date.days - first_date.days >= 90
  ELSE IF frequency = "monthly"
  THEN \/ current_date.year > last_rebalance[1].year
       \/ /\ current_date.year = last_rebalance[1].year
          /\ current_date.month > last_rebalance[1].month
  ELSE IF frequency = "quarterly"
  THEN \/ current_date.year > last_rebalance[1].year
       \/ /\ current_date.year = last_rebalance[1].year
          /\ quarter(current_date.month) > quarter(last_rebalance[1].month)
  ELSE IF frequency = "yearly"
  THEN current_date.year > last_rebalance[1].year
  ELSE FALSE

\* lines 459-480: the time trigger of the run, read from the argument
\* last_rebalance_date; the dates are those of the rows
should_rebalance_time(investment_date, start_date, last_rebalance_date_arg) ==
  time_trigger(rebalance_frequency, RowDates[investment_date + 1], RowDates[start_date + 1],
               IF last_rebalance_date_arg = <<>> THEN <<>>
               ELSE <<RowDates[last_rebalance_date_arg[1] + 1]>>)

\* lines 490-493: the tickers that get a current_allocation
allocated(p, row) ==
  {t \in DOMAIN p.holdings : HasPrice(row, t) /\ p.holdings[t].shares > 0}

\* lines 495-506: abs(current_value / total_value * 100 - weight * 100) of a
\* ticker of the target allocation is above self.rebalance_threshold
should_rebalance_drift(p, row) ==
  LET total_value == calculate_total_value(p, row)
      target_allocation == calculate_allocation_weights
      W == allocation_denominator
  IN  \E t \in DOMAIN target_allocation \cap allocated(p, row) :
        Abs(p.holdings[t].shares * row[t] * 100 * W
            - target_allocation[t] * 100 * total_value)
          > rebalance_threshold * Abs(total_value) * W

\* lines 512-513: self.last_rebalance_date = closest_trading_date, once
\* perform_rebalance has returned
after_rebalance(rebalanced, self_date, closest_trading_date) ==
  IF rebalanced.raised # "none"
  THEN [p |-> rebalanced, last_rebalance_date |-> self_date, executed |-> FALSE]
  ELSE [p |-> rebalanced, last_rebalance_date |-> <<closest_trading_date>>,
        executed |-> TRUE]

\* self_date: self.last_rebalance_date before the call
check_and_rebalance(p, self_date, row, investment_date, closest_trading_date, start_date, last_rebalance_date_arg, sold_tickers) ==
  LET by_time ==
        should_rebalance_time(investment_date, start_date, last_rebalance_date_arg)
      unchanged == [p |-> p, last_rebalance_date |-> self_date, executed |-> FALSE]
  IN  IF p.raised # "none" \/ p.hkeys = <<>> THEN unchanged
      ELSE IF ~by_time /\ allocated(p, row) # {} /\ calculate_total_value(p, row) = 0
      THEN [unchanged EXCEPT !.p = Raise(p, "ZeroDivisionError")]
      ELSE IF by_time \/ should_rebalance_drift(p, row)
      THEN after_rebalance(perform_rebalance(p, row, closest_trading_date, sold_tickers),
                           self_date, closest_trading_date)
      ELSE unchanged

(***************************************************************************)
(* Reading the records of either family                                     *)
(***************************************************************************)
\* a lot's share count: 'shares' (Portfolio), 'shares_remaining' (functions)
LotRemaining(l) == IF "shares" \in DOMAIN l THEN l.shares ELSE l.shares_remaining

\* the share count is at most the one bought: the functions' lots record it,
\* a Portfolio lot keeps cost = shares bought * price
LotWithinInitial(l) ==
  IF "shares" \in DOMAIN l THEN l.shares * l.price <= l.cost
  ELSE l.shares_remaining <= l.initial_shares_purchased

LotAtInitial(l) ==
  IF "shares" \in DOMAIN l THEN l.shares * l.price = l.cost
  ELSE l.shares_remaining = l.initial_shares_purchased

\* a holding's total: 'shares' (Portfolio), 'shares_remaining' (functions)
HoldingHasTotal(h) == "shares" \in DOMAIN h \/ "shares_remaining" \in DOMAIN h
HoldingTotal(h) == IF "shares" \in DOMAIN h THEN h.shares ELSE h.shares_remaining

LotsOf(H, t) == IF t \in DOMAIN H THEN H[t].investments ELSE <<>>

RECURSIVE OpenLotShares(_)
OpenLotShares(investments) ==
  IF investments = <<>> THEN 0
  ELSE (IF Head(investments).sold THEN 0 ELSE LotRemaining(Head(investments)))
       + OpenLotShares(Tail(investments))

(***************************************************************************)
(* Actions                                                                  *)
(***************************************************************************)
Running ==
  raised = "none" /\ Len(transactions) < (IF Large THEN LargeMaxTx ELSE MaxTx)

\* the simulation loop moves to its next date
NextDate ==
  /\ Running
  /\ today < Len(prices) - 1
  /\ today' = today + 1
  /\ last' = [op |-> "next_date"]
  /\ UNCHANGED <<api, prices, cash, holdings, hkeys, transactions, raised,
                 last_rebalance_date, portfolio_history>>

Deposit ==
  /\ Running
  /\ \E amount \in (IF Large THEN LargeDepositAmounts ELSE DepositAmounts) :
       /\ cash + amount <= (IF Large THEN LargeMaxCash ELSE MaxCash)
       /\ SetPf(add_cash(Pf, amount))
       /\ last' = [op |-> "add_cash", amount |-> amount]
  /\ UNCHANGED <<api, prices, today, last_rebalance_date, portfolio_history>>

RECURSIVE LotCount(_, _)
LotCount(h, keys) ==
  IF keys = <<>> THEN 0
  ELSE Len(h[Head(keys)].investments) + LotCount(h, Tail(keys))

CanGrow == LotCount(holdings, hkeys) < (IF Large THEN LargeMaxLots ELSE MaxLots)

Buy ==
  /\ Running
  /\ \E t \in DOMAIN date_prices, s \in BuyShares :
       /\ CanGrow
       /\ SetPf(IF api = "Portfolio"
                THEN Portfolio_buy_position(Pf, t, s, date_prices[t], today)
                ELSE buy_position(Pf, t, s, date_prices[t], today))
       /\ last' = [op |-> "buy", ticker |-> t, shares |-> s, price |-> date_prices[t],
                   cash_before |-> cash]
  /\ UNCHANGED <<api, prices, today, last_rebalance_date, portfolio_history>>

Sell ==
  /\ Running
  /\ \E t \in DOMAIN date_prices, s \in SellShares :
       /\ SetPf(IF api = "Portfolio"
                THEN Portfolio_sell_position(Pf, t, s, date_prices[t], today)
                ELSE sell_position(Pf, t, s, date_prices[t], today))
       /\ last' = [op |-> "sell", ticker |-> t, shares |-> s, price |-> date_prices[t],
                   open_before |-> OpenLotShares(LotsOf(holdings, t))]
  /\ UNCHANGED <<api, prices, today, last_rebalance_date, portfolio_history>>

Harvest ==
  /\ Running
  /\ LET r == IF api = "Portfolio"
              THEN Portfolio_track_and_manage_positions(Pf, date_prices, today)
              ELSE track_and_manage_positions(Pf, date_prices, today)
     IN  /\ SetPf(r.p)
         \* first_pass: what the pass directly before this one returned, if there was one
         /\ last' = [op |-> "harvest", sold_tickers |-> r.sold_tickers,
                     first_pass |-> IF last.op = "harvest" THEN last.sold_tickers ELSE <<>>]
  /\ UNCHANGED <<api, prices, today, last_rebalance_date, portfolio_history>>

Invest ==
  /\ Running
  /\ \E w \in (IF Large THEN LargeAllocationTables ELSE AllocationTables),
        ex \in ExcludedLists :
       /\ CanGrow
       /\ SetPf(IF api = "Portfolio"
                THEN Portfolio_invest_available_cash(Pf, w, date_prices, today, ex)
                ELSE invest_available_cash(Pf, w, date_prices, today, ex))
       /\ last' = [op |-> "invest", allocation_weights |-> w, excluded |-> ex]
  /\ UNCHANGED <<api, prices, today, last_rebalance_date, portfolio_history>>

Rebalance ==
  /\ Running
  /\ api = "Portfolio"
  /\ \E ex \in ExcludedLists :
       /\ SetPf(perform_rebalance(Pf, date_prices, today, ex))
       /\ last' = [op |-> "rebalance", excluded |-> ex]
  /\ UNCHANGED <<api, prices, today, last_rebalance_date, portfolio_history>>

\* the operations of one simulation step, in the order of the loop body
\* (investment_model.py 112-140)
StepOrder == <<"deposit", "harvest", "invest", "rebalance", "snapshot">>

\* InvestmentForecastingModel.run_simulation, as far as it gets.  Its first
\* statement, self.generate_investment_dates(), parses start_date and
\* end_date into datetime objects and hands them to
\* utils/date_utils.generate_investment_dates, which parses its arguments
\* with datetime.strptime again: TypeError (strptime() argument 1 must be
\* str).  Nothing of the portfolio is touched before that: neither the
\* download, the "no valid tickers" return, initialize_holdings, the ledger
\* with the initial deposit nor the loop over the investment dates is
\* reached.  steps lists the steps the loop processed, ledger the
\* transactions list of the run.
run_simulation(p, valid_tickers, initial_investment) ==
  [p |-> Raise(p, "TypeError"), ledger |-> <<>>, steps |-> <<>>]

RunSimulation ==
  /\ Running
  /\ api = "Portfolio"
  /\ last.op = "init"
  /\ \E valid_tickers \in SUBSET {tickers[i] : i \in 1..Len(tickers)},
        initial_investment \in DepositAmounts :
       LET r == run_simulation(Pf, valid_tickers, initial_investment)
       IN  /\ SetPf(r.p)
           /\ last' = [op |-> "run_simulation", valid_tickers |-> valid_tickers,
                       ledger |-> r.ledger, steps |-> r.steps]
  /\ UNCHANGED <<api, prices, today, last_rebalance_date, portfolio_history>>

Next ==
  NextDate \/ Deposit \/ Buy \/ Sell \/ Harvest \/ Invest \/ Rebalance \/ RunSimulation

Spec == Init /\ [][Next]_vars

\* check_and_rebalance as a caller of the Portfolio reaches it: the argument
\* last_rebalance_date is None (the caller's own attribute, which nothing
\* assigns after the constructor) or the Portfolio's attribute
CheckAndRebalance ==
  /\ Running
  /\ api = "Portfolio"
  /\ \E last_rebalance_date_arg \in {<<>>, last_rebalance_date},
        sold_tickers \in ExcludedLists :
       LET r == check_and_rebalance(Pf, last_rebalance_date, date_prices, today, today,
                                    0, last_rebalance_date_arg, sold_tickers)
       IN  /\ SetPf(r.p)
           /\ last_rebalance_date' = r.last_rebalance_date
           \* returned: the method returns None (<<>>) on every path, and
           \* run_simulation assigns what it returns to its ledger
           /\ last' = [op |-> "check_and_rebalance",
                       last_rebalance_date |-> last_rebalance_date_arg,
                       excluded |-> sold_tickers, executed |-> r.executed,
                       returned |-> <<>>]
  /\ UNCHANGED <<api, prices, today, portfolio_history>>

\* the runs with the second set of inputs: a Portfolio that is funded,
\* harvested, invested and checked for rebalancing on the dates of the table
InitLarge ==
  /\ api = "Portfolio"
  /\ prices \in LargePriceTables
  /\ today = 0
  /\ cash = 0
  /\ \E seeded \in SeedSets :
       /\ holdings = initialize_holdings(seeded)
       /\ hkeys = SeqOf(TickerList, seeded)
  /\ transactions = <<>>
  /\ raised = "none"
  /\ last = [op |-> "init"]
  /\ last_rebalance_date = <<>>
  /\ portfolio_history = <<>>

\* the snapshot of the date, taken by the caller of the Portfolio
UpdatePortfolioHistory ==
  /\ Running
  /\ api = "Portfolio"
  /\ Len(portfolio_history) < MaxHistory
  /\ portfolio_history' = update_portfolio_history(Pf, portfolio_history, date_prices, today)
  /\ last' = [op |-> "update_portfolio_history"]
  /\ UNCHANGED <<api, prices, today, cash, holdings, hkeys, transactions, raised,
                 last_rebalance_date>>

\* InvestmentForecastingModel.transactions: the constructor sets it to [] and
\* nothing assigns it again (the assignment in run_simulation is commented
\* out); the ledger of a run is a local variable of run_simulation
self_transactions == <<>>

\* InvestmentForecastingModel.calculate_performance_metrics on the history
\* of the Portfolio: an empty history gives the empty dict (<<>>); otherwise
\* the deposits are summed over self.transactions and the next statement,
\* history.iloc[-1], raises AttributeError: the history is a list
calculate_performance_metrics(history) ==
  IF Len(history) = 0
  THEN [raised |-> "none", performance_metrics |-> <<>>]
  ELSE [raised |-> "AttributeError", performance_metrics |-> <<>>]

CalculatePerformanceMetrics ==
  /\ Running
  /\ api = "Portfolio"
  /\ LET r == calculate_performance_metrics(portfolio_history)
     IN  /\ raised' = r.raised
         /\ last' = [op |-> "calculate_performance_metrics",
                     transactions |-> self_transactions,
                     performance_metrics |-> r.performance_metrics]
  /\ UNCHANGED <<api, prices, today, cash, holdings, hkeys, transactions,
                 last_rebalance_date, portfolio_history>>

\* the runs of a Portfolio whose caller records a snapshot now and then and
\* asks for the performance metrics
InitHistory == Init /\ api = "Portfolio"

NextHistory ==
  \/ NextDate \/ Deposit \/ Invest \/ Harvest
  \/ UpdatePortfolioHistory \/ CalculatePerformanceMetrics

SpecHistory == InitHistory /\ [][NextHistory]_vars

(***************************************************************************)
(* The time trigger on calendar dates                                      *)
(***************************************************************************)
is_leap(year) == year % 4 = 0 /\ (year % 100 # 0 \/ year % 400 = 0)

days_in_month(year, month) ==
  IF month = 2 THEN (IF is_leap(year) THEN 29 ELSE 28)
  ELSE IF month \in {4, 6, 9, 11} THEN 30 ELSE 31

RECURSIVE days_before_month(_, _)
days_before_month(year, month) ==
  IF month = 1 THEN 0
  ELSE days_before_month(year, month - 1) + days_in_month(year, month - 1)

RECURSIVE days_before_year(_)
days_before_year(year) ==
  IF year <= 2023 THEN 0
  ELSE days_before_year(year - 1) + (IF is_leap(year - 1) THEN 366 ELSE 365)

\* pd.to_datetime of a calendar date; days is the day count that the
\* subtraction of two dates takes the difference of
to_datetime(year, month, day) ==
  [year |-> year, month |-> month, day |-> day,
   days |-> days_before_year(year) + days_before_month(year, month) + day - 1]

\* the first and the last day of every month of the years of the run
CalendarDates ==
  UNION { {to_datetime(y, m, 1), to_datetime(y, m, days_in_month(y, m))} :
            y \in 2023..(2022 + TriggerYears), m \in 1..12 }

\* the arguments of one call: the caller's investment date is not before the
\* start of the simulation nor before the last rebalance
TriggerInputs ==
  { i \in [rebalance_frequency : {"monthly", "quarterly", "yearly"},
           current_date : CalendarDates, first_date : CalendarDates,
           last_rebalance : {<<>>} \cup { <<c>> : c \in CalendarDates }] :
      /\ i.first_date.days <= i.current_date.days
      /\ i.last_rebalance # <<>>
           => /\ i.first_date.days <= i.last_rebalance[1].days
              /\ i.last_rebalance[1].days <= i.current_date.days }

\* lines 458-480 of one call on a Portfolio that has holdings
ShouldRebalanceTime ==
  /\ Running
  /\ last.op = "inputs"
  /\ last' = [op |-> "should_rebalance_time", inputs |-> last.inputs,
              should_rebalance_time |->
                time_trigger(last.inputs.rebalance_frequency, last.inputs.current_date,
                             last.inputs.first_date, last.inputs.last_rebalance)]
  /\ UNCHANGED <<api, prices, today, cash, holdings, hkeys, transactions, raised,
                 last_rebalance_date, portfolio_history>>

\* a Portfolio of tickers A and B, and the arguments of the call
InitTrigger ==
  /\ api = "Portfolio"
  /\ prices = <<[A |-> 100, B |-> 40], [A |-> 80, B |-> 40], [A |-> 90, B |-> 40]>>
  /\ today = 0
  /\ cash = 0
  /\ holdings = initialize_holdings({"A", "B"})
  /\ hkeys = SeqOf(TickerList, {"A", "B"})
  /\ transactions = <<>>
  /\ raised = "none"
  /\ \E i \in TriggerInputs : last = [op |-> "inputs", inputs |-> i]
  /\ last_rebalance_date = <<>>
  /\ portfolio_history = <<>>

NextTrigger == ShouldRebalanceTime

SpecTrigger == InitTrigger /\ [][NextTrigger]_vars

NextLarge == NextDate \/ Deposit \/ Harvest \/ Invest \/ CheckAndRebalance

SpecLarge == InitLarge /\ [][NextLarge]_vars

(***************************************************************************)
(* Properties                                                               *)
(***************************************************************************)
\* the latest step was a call of buy / sell (its arguments are in last')
BuyStep == last'.op = "buy"
SellStep == last'.op = "sell"

\* the ledger entries the latest step appended
Appended == SubSeq(transactions', Len(transactions) + 1, Len(transactions'))

RECURSIVE SumAmounts(_)
SumAmounts(txs) == IF txs = <<>> THEN 0 ELSE Head(txs).amount + SumAmounts(Tail(txs))

RECURSIVE SumShares(_)
SumShares(txs) == IF txs = <<>> THEN 0 ELSE Head(txs).shares + SumShares(Tail(txs))

LotPartlySold(l) == ~l.sold /\ ~LotAtInitial(l)

\* C1: after any sequence of operations, the total shares of every holding
\* that has a total equal the sum of the share counts of its lots that are
\* not sold.
LotConservation ==
  \A t \in DOMAIN holdings :
    HoldingHasTotal(holdings[t])
      => HoldingTotal(holdings[t]) = OpenLotShares(holdings[t].investments)

\* a sell has closed one lot of a holding and taken part of another
LotConservationWitness ==
  /\ last.op = "sell"
  /\ last.ticker \in DOMAIN holdings
  /\ HoldingHasTotal(holdings[last.ticker])
  /\ HoldingTotal(holdings[last.ticker]) > 0
  /\ \E i, j \in 1..Len(holdings[last.ticker].investments) :
       /\ holdings[last.ticker].investments[i].sold
       /\ LotPartlySold(holdings[last.ticker].investments[j])

\* C2 (as claimed): cash is never negative, whatever operation ran last.
CashNonNegative == cash >= 0

\* C3 (as claimed): every lot has 0 <= shares remaining <= initial shares, and
\* its sold flag is true exactly when its shares remaining is 0.
LotSoldIffEmpty ==
  \A t \in DOMAIN holdings :
    \A i \in 1..Len(holdings[t].investments) :
      LET l == holdings[t].investments[i]
      IN  /\ 0 <= LotRemaining(l)
          /\ LotWithinInitial(l)
          /\ l.sold <=> (LotRemaining(l) = 0)

\* C3 (amended): every lot, open or sold, has 0 < shares remaining <= initial
\* shares, and the step that sets the sold flag of a lot leaves the shares
\* remaining of that lot as they were.
LotSoldKeepsRemaining ==
  [][\A t \in DOMAIN holdings' :
       \A i \in 1..Len(holdings'[t].investments) :
         LET l2 == holdings'[t].investments[i]
         IN  /\ 0 < LotRemaining(l2)
             /\ LotWithinInitial(l2)
             /\ (/\ i <= Len(LotsOf(holdings, t))
                 /\ l2.sold
                 /\ ~holdings[t].investments[i].sold)
                  => LotRemaining(l2) = LotRemaining(holdings[t].investments[i])]_vars

\* a sell has closed a lot, and the lot still shows the shares it had
LotSoldKeepsRemainingWitness ==
  /\ last.op = "sell"
  /\ last.ticker \in DOMAIN holdings
  /\ \E i \in 1..Len(holdings[last.ticker].investments) :
       /\ holdings[last.ticker].investments[i].sold
       /\ LotRemaining(holdings[last.ticker].investments[i]) > 0

\* C4 (as claimed): a buy asking for more than the cash at hand (cash >= 0),
\* for a ticker whose holding it can read, buys the largest affordable share
\* count (2 decimals) and spends no more than the cash there was.
BuyClampedToAffordable ==
  [][(BuyStep /\ cash >= 0 /\ last'.shares * last'.price > cash
        /\ raised' = "none")
       => /\ SumShares(Appended) = cash \div last'.price
          /\ cash - cash' <= cash]_vars

\* the share count buy goes ahead with, for the cash it finds
ClampedShares(available, shares_to_buy, price) ==
  IF api = "Portfolio" THEN Portfolio_buy_shares(available, shares_to_buy, price)
  ELSE buy_shares(available, shares_to_buy, price)

\* C5: a buy whose share count is 0 after the clamp to the available cash
\* creates no lot, leaves cash and every holding as they were, appends no
\* transaction and raises nothing.
BuyOfNothingIsNoOp ==
  [][(BuyStep /\ ClampedShares(cash, last'.shares, last'.price) <= 0)
       => /\ UNCHANGED <<cash, holdings, hkeys, transactions>>
          /\ raised' = "none"]_vars

\* a buy found the cash spent by an earlier buy and its share count clamped to 0
BuyOfNothingWitness ==
  /\ last.op = "buy"
  /\ last.shares > 0
  /\ Len(transactions) > 0
  /\ ClampedShares(last.cash_before, last.shares, last.price) = 0
  /\ cash = last.cash_before
  /\ raised = "none"

\* C6 (as claimed): a buy of shares > 0 at price > 0 with shares x price <= cash
\* appends one open lot with shares remaining = initial shares = shares,
\* raises the holding's total by shares (from 0 when there was no holding),
\* lowers cash by exactly shares x price and appends one 'buy' transaction
\* with the symbol and the share count.
BuyWithinCashAddsOneLot ==
  [][(BuyStep /\ last'.shares > 0 /\ last'.price > 0
        /\ last'.shares * last'.price <= cash)
       => LET t == last'.ticker
              s == last'.shares
              before == LotsOf(holdings, t)
              total == IF t \in DOMAIN holdings /\ HoldingHasTotal(holdings[t])
                       THEN HoldingTotal(holdings[t]) ELSE 0
          IN  /\ raised' = "none"
              /\ t \in DOMAIN holdings'
              /\ Len(holdings'[t].investments) = Len(before) + 1
              /\ SubSeq(holdings'[t].investments, 1, Len(before)) = before
              /\ LET l == holdings'[t].investments[Len(before) + 1]
                 IN  ~l.sold /\ LotRemaining(l) = s /\ LotAtInitial(l)
              /\ HoldingHasTotal(holdings'[t])
              /\ HoldingTotal(holdings'[t]) = total + s
              /\ cash' = cash - s * last'.price
              /\ Len(Appended) = 1
              /\ Appended[1].type = "buy"
              /\ Appended[1].ticker = t
              /\ Appended[1].shares = s]_vars

\* the order C7 claims: loss lots before the others, the higher purchase price
\* first among loss lots, the older purchase date first among the others
LossFirstBefore(a, b, price) ==
  \/ a.price > price /\ b.price <= price
  \/ a.price > price /\ b.price > price /\ a.price > b.price
  \/ a.price <= price /\ b.price <= price /\ a.date < b.date

\* the order of Portfolio.sell_position: the later purchase date first
MostRecentBefore(a, b, price) == a.date > b.date

\* the latest step took shares from lot i of ticker t
LotTouched(t, i) == holdings'[t].investments[i] # holdings[t].investments[i]

\* C7 (as claimed): a sell takes shares from a lot only when every open lot
\* that comes before it in the loss-first order is sold in full.
SellLossLotsFirst ==
  [][(SellStep /\ last'.ticker \in DOMAIN holdings)
       => LET t == last'.ticker
              lots == holdings[t].investments
          IN  \A i, j \in 1..Len(lots) :
                (/\ ~lots[i].sold /\ ~lots[j].sold
                 /\ LossFirstBefore(lots[i], lots[j], last'.price)
                 /\ LotTouched(t, j))
                  => holdings'[t].investments[i].sold]_vars

\* C7 (amended): sell_position of utils/transaction.py takes shares from a lot
\* only when every open lot before it in the loss-first order is sold in full;
\* Portfolio.sell_position takes shares from a lot only when every open lot
\* with a later purchase date is sold in full.
SellOrderOfEachFamily ==
  [][(SellStep /\ last'.ticker \in DOMAIN holdings)
       => LET t == last'.ticker
              lots == holdings[t].investments
          IN  \A i, j \in 1..Len(lots) :
                (/\ ~lots[i].sold /\ ~lots[j].sold
                 /\ IF api = "Portfolio"
                    THEN MostRecentBefore(lots[i], lots[j], last'.price)
                    ELSE LossFirstBefore(lots[i], lots[j], last'.price)
                 /\ LotTouched(t, j))
                  => holdings'[t].investments[i].sold]_vars

\* sell_position of utils/transaction.py has sold in full a loss lot bought
\* after a lot that shows no loss, and taken the rest from that older lot
SellOrderWitness ==
  /\ last.op = "sell"
  /\ api = "functions"
  /\ last.ticker \in DOMAIN holdings
  /\ Len(transactions) >= 2
  /\ transactions[Len(transactions)].date = today
  /\ transactions[Len(transactions) - 1].date = today
  /\ \E i, j \in 1..Len(holdings[last.ticker].investments) :
       LET a == holdings[last.ticker].investments[i]
           b == holdings[last.ticker].investments[j]
       IN  /\ a.date < b.date
           /\ a.price <= last.price /\ b.price > last.price
           /\ b.sold /\ LotPartlySold(a)
           /\ transactions[Len(transactions) - 1].shares = LotRemaining(b)

\* C8: the shares a sell takes from the lots are at most shares_to_sell and at
\* most the shares of the open lots before the call; when fewer are open than
\* asked for, exactly the open shares are sold; nothing is raised.
SellTakesAtMostOpenShares ==
  [][SellStep
       => LET open == OpenLotShares(LotsOf(holdings, last'.ticker))
              taken == open - OpenLotShares(LotsOf(holdings', last'.ticker))
          IN  /\ 0 <= taken
              /\ taken <= last'.shares
              /\ taken <= open
              /\ open < last'.shares => taken = open
              /\ raised' = "none"]_vars

\* a sell asked for more shares than were open and sold the open ones
SellTakesAtMostOpenSharesWitness ==
  /\ last.op = "sell"
  /\ 0 < last.open_before
  /\ last.open_before < last.shares
  /\ OpenLotShares(LotsOf(holdings, last.ticker)) = 0
  /\ raised = "none"

\* the number of lots of ticker t the latest step took shares from
LotsTouched(t) ==
  Cardinality({i \in 1..Len(LotsOf(holdings, t)) : LotTouched(t, i)})

\* C9 (as claimed): a sell appends one 'sell' transaction for each lot it
\* takes shares from, and raises cash by exactly the sum of their amounts.
SellRecordsEachLot ==
  [][SellStep
       => /\ Len(Appended) = LotsTouched(last'.ticker)
          /\ \A k \in 1..Len(Appended) : Appended[k].type = "sell"
          /\ cash' - cash = SumAmounts(Appended)]_vars

\* C10: a sell for a ticker that has no holding, or whose lots are all sold,
\* appends no transaction and leaves cash, holdings and lots as they were.
SellOfNothingIsNoOp ==
  [][(SellStep
        /\ \A i \in 1..Len(LotsOf(holdings, last'.ticker)) :
             holdings[last'.ticker].investments[i].sold)
       => /\ UNCHANGED <<cash, holdings, hkeys, transactions>>
          /\ raised' = "none"]_vars

\* a sell was asked of a holding whose lots were sold before
SellOfNothingWitness ==
  /\ last.op = "sell"
  /\ last.open_before = 0
  /\ last.ticker \in DOMAIN holdings
  /\ Len(holdings[last.ticker].investments) > 0
  /\ \A i \in 1..Len(holdings[last.ticker].investments) :
       holdings[last.ticker].investments[i].sold
  /\ raised = "none"

\* the latest step was a harvest pass (track_and_manage_positions)
HarvestStep == last'.op = "harvest"

\* the lots of ticker t the latest step closed
NewlySold(t) ==
  {i \in 1..Len(LotsOf(holdings, t)) :
     ~holdings[t].investments[i].sold /\ holdings'[t].investments[i].sold}

RECURSIVE SharesOfLots(_, _)
SharesOfLots(investments, I) ==
  IF I = {} THEN 0
  ELSE LET i == CHOOSE x \in I : TRUE
       IN  LotRemaining(investments[i]) + SharesOfLots(investments, I \ {i})

\* return_pct <= sell_trigger, on the return the pass has stored in the lot
AtOrBelowTrigger(l) ==
  IF "shares" \in DOMAIN l THEN RatLe(l.return_pct, RatInt(sell_trigger))
  ELSE l.return_pct <= sell_trigger * 100

\* shares x price; the functions keep it rounded to cents
Proceeds(l, price) ==
  IF "shares" \in DOMAIN l THEN l.shares * price ELSE Round2(l.shares_remaining * price)

\* C11: a harvest pass that returns closes exactly the open lots of priced
\* tickers whose return_pct is <= sell_trigger, each for all its remaining
\* shares at the date's price, with one sell transaction per lot and cash
\* raised by the proceeds; the holding total drops by the shares of the closed
\* lots, and the returned tickers are exactly those with a lot closed.
HarvestLiquidatesLosers ==
  [][(HarvestStep /\ raised' = "none")
       => /\ \A t \in DOMAIN holdings :
               \A i \in 1..Len(holdings[t].investments) :
                 LET l == holdings[t].investments[i]
                     l2 == holdings'[t].investments[i]
                 IN  IF l.sold \/ ~HasPrice(date_prices, t) THEN l2 = l
                     ELSE /\ l2.sold <=> AtOrBelowTrigger(l2)
                          /\ LotRemaining(l2) = LotRemaining(l)
                          /\ l2.sold =>
                               \E k \in 1..Len(Appended) :
                                 /\ Appended[k].type = "sell"
                                 /\ Appended[k].ticker = t
                                 /\ Appended[k].shares = LotRemaining(l)
                                 /\ Appended[k].price = date_prices[t]
                                 /\ Appended[k].amount = Proceeds(l, date_prices[t])
          /\ Len(Appended)
               = Cardinality(UNION {{<<t, i>> : i \in NewlySold(t)} : t \in DOMAIN holdings})
          /\ cash' - cash = SumAmounts(Appended)
          /\ \A t \in DOMAIN holdings :
               HoldingHasTotal(holdings[t])
                 => HoldingTotal(holdings'[t])
                      = HoldingTotal(holdings[t])
                        - SharesOfLots(holdings[t].investments, NewlySold(t))
          /\ {last'.sold_tickers[k] : k \in 1..Len(last'.sold_tickers)}
               = {t \in DOMAIN holdings : NewlySold(t) # {}}]_vars

\* a harvest pass has closed a lot at a loss and kept another lot open
HarvestLiquidatesLosersWitness ==
  /\ last.op = "harvest"
  /\ raised = "none"
  /\ Len(last.sold_tickers) > 0
  /\ Len(transactions) > 0
  /\ transactions[Len(transactions)].type = "sell"
  /\ transactions[Len(transactions)].date = today
  /\ \E t \in DOMAIN holdings :
       \E i, j \in 1..Len(holdings[t].investments) :
         /\ holdings[t].investments[i].sold
         /\ AtOrBelowTrigger(holdings[t].investments[i])
         /\ holdings[t].investments[i].price > date_prices[t]
         /\ ~holdings[t].investments[j].sold
         /\ ~AtOrBelowTrigger(holdings[t].investments[j])

\* C12: a harvest pass measures a lot's return on its remaining shares against
\* the cost of those shares (cost x remaining / bought): a partly sold lot
\* whose price is its purchase price has return 0 and is not closed.
HarvestProratesCost ==
  [][(HarvestStep /\ raised' = "none")
       => \A t \in DOMAIN holdings :
            \A i \in 1..Len(holdings[t].investments) :
              LET l == holdings[t].investments[i]
                  l2 == holdings'[t].investments[i]
              IN  (LotPartlySold(l) /\ HasPrice(date_prices, t) /\ date_prices[t] = l.price)
                    => ~l2.sold]_vars

\* C13: a harvest pass run directly after a harvest pass, on the same date
\* and prices, appends no transaction, returns no ticker and leaves cash and
\* holdings as they were.
HarvestTwiceChangesNothing ==
  [][(HarvestStep /\ last.op = "harvest" /\ raised' = "none")
       => /\ Appended = <<>>
          /\ last'.sold_tickers = <<>>
          /\ cash' = cash
          /\ holdings' = holdings]_vars

\* a second pass has run, directly after a pass that had closed a lot
HarvestTwiceWitness ==
  /\ last.op = "harvest"
  /\ last.first_pass # <<>>
  /\ last.sold_tickers = <<>>
  /\ raised = "none"
  /\ Len(transactions) > 0
  /\ transactions[Len(transactions)].type = "sell"
  /\ transactions[Len(transactions)].date = today
  /\ \E t \in DOMAIN holdings :
       \E i \in 1..Len(holdings[t].investments) :
         /\ holdings[t].investments[i].sold
         /\ holdings[t].investments[i].days_held = today - holdings[t].investments[i].date
         /\ AtOrBelowTrigger(holdings[t].investments[i])

\* the elements of a list
Elems(list) == {list[k] : k \in 1..Len(list)}

RebalanceStep == last'.op = "rebalance"

\* C15: a rebalance pass records neither a buy nor a sell for a ticker of
\* its excluded list, also when the ticker still has open lots.
RebalanceSkipsExcluded ==
  [][RebalanceStep
       => \A k \in 1..Len(Appended) : Appended[k].ticker \notin Elems(last'.excluded)]_vars

InvestStep == last'.op = "invest"

\* C19: an invest_available_cash call that returns records only buys, at
\* most one per ticker, each for a ticker of the allocation table that is not
\* excluded and has a price on the date; the holding of every excluded and of
\* every unpriced ticker is as before; cash falls by exactly the recorded
\* amounts; with cash <= 0 nothing changes.
InvestBuysOnlyEligible ==
  [][(InvestStep /\ raised' = "none")
       => LET w == last'.allocation_weights
              ex == Elems(last'.excluded)
          IN  /\ \A k \in 1..Len(Appended) :
                   /\ Appended[k].type = "buy"
                   /\ Appended[k].ticker \in (DOMAIN w) \ ex
                   /\ HasPrice(date_prices, Appended[k].ticker)
                   /\ Appended[k].price = date_prices[Appended[k].ticker]
                   /\ \A j \in 1..Len(Appended) :
                        Appended[j].ticker = Appended[k].ticker => j = k
              /\ \A t \in Tickers :
                   (t \in ex \/ ~HasPrice(date_prices, t))
                     => /\ (t \in DOMAIN holdings') = (t \in DOMAIN holdings)
                        /\ t \in DOMAIN holdings => holdings'[t] = holdings[t]
              /\ cash' = cash - SumAmounts(Appended)
              /\ cash <= 0 => /\ cash' = cash
                              /\ holdings' = holdings
                              /\ transactions' = transactions]_vars

\* an invest call has bought a ticker and left alone an excluded ticker with
\* an open lot and a ticker of the table that has no price
InvestBuysOnlyEligibleWitness ==
  /\ last.op = "invest"
  /\ raised = "none"
  /\ last.excluded = <<"A">>
  /\ "C" \in DOMAIN last.allocation_weights
  /\ ~HasPrice(date_prices, "C")
  /\ HasPrice(date_prices, "A")
  /\ "A" \in DOMAIN holdings
  /\ OpenLotShares(holdings["A"].investments) > 0
  /\ Len(transactions) > 1
  /\ transactions[Len(transactions)].type = "buy"
  /\ transactions[Len(transactions)].ticker = "B"
  /\ transactions[Len(transactions)].date = today
  /\ transactions[Len(transactions)].shares \notin BuyShares
  /\ transactions[Len(transactions) - 1].ticker = "A"
  /\ cash > 0

CheckStep == last'.op = "check_and_rebalance"

\* ticker t has a lot that a harvest pass closed on the current date: only a
\* harvest pass stores a return at or below the trigger, and it closes the
\* lot and sets its days_held in the same step
HarvestedToday(t) ==
  \E i \in 1..Len(LotsOf(holdings, t)) :
    LET l == holdings[t].investments[i]
    IN  l.sold /\ AtOrBelowTrigger(l) /\ l.days_held = today - l.date

\* C14: an invest_available_cash call or a rebalance check that is handed,
\* as its excluded list, the tickers harvested on the date records no buy
\* for a ticker harvested on that date.
NoBuyAfterHarvest ==
  [][((InvestStep \/ CheckStep)
        /\ {t \in Tickers : HarvestedToday(t)} \subseteq Elems(last'.excluded))
       => \A k \in 1..Len(Appended) :
            Appended[k].type = "buy" => ~HarvestedToday(Appended[k].ticker)]_vars

\* a rebalance has run on the date of a harvest of A, with A excluded, and
\* has bought B with the proceeds
NoBuyAfterHarvestWitness ==
  /\ last.op = "check_and_rebalance"
  /\ last.executed
  /\ last.excluded = <<"A">>
  /\ HarvestedToday("A")
  /\ Len(transactions) > 1
  /\ transactions[Len(transactions)].type = "buy"
  /\ transactions[Len(transactions)].ticker = "B"
  /\ transactions[Len(transactions)].date = today
  /\ transactions[Len(transactions) - 1].type = "sell"
  /\ transactions[Len(transactions) - 1].ticker = "A"
  /\ transactions[Len(transactions) - 1].date = today

\* C16: self.last_rebalance_date changes only in a check_and_rebalance call
\* that executes a rebalance, a call that executes none leaves it as it was,
\* and the date the trigger check of a call reads is that attribute: the date
\* of the most recent executed rebalance, or None before the first one.
RebalanceDateTracksExecution ==
  [][/\ last_rebalance_date' # last_rebalance_date => CheckStep /\ last'.executed
     /\ (CheckStep /\ ~last'.executed) => last_rebalance_date' = last_rebalance_date
     /\ (CheckStep /\ last'.executed) => last_rebalance_date' = <<today>>
     /\ CheckStep => last'.last_rebalance_date = last_rebalance_date]_vars

\* the market value of ticker t in the holdings H at the prices of the date
ValueOf(H, t) == IF t \in DOMAIN H THEN H[t].shares * date_prices[t] ELSE 0

\* the smallest trade of the rebalance at a price, doubled: more than 10
\* dollars to buy, more than 0.01 share (0.015 before rounding) either way
TwiceMinimumTrade(price) == IF 3 * price > 200000 THEN 3 * price ELSE 200000

\* value lies within the 2% buffer around the target total * w / W, widened by
\* the minimum trade
NearTarget(value, total, w, W, price) ==
  200 * Abs(total * w - value * W) <= 4 * total * w + 100 * W * TwiceMinimumTrade(price)

\* a rebalance was executed by the step, with no excluded ticker and a price
\* for every held ticker and every ticker of the target set
FullRebalanceStep ==
  /\ CheckStep
  /\ last'.executed
  /\ last'.excluded = <<>>
  /\ \A t \in (DOMAIN holdings) \cup (DOMAIN calculate_allocation_weights) :
       HasPrice(date_prices, t)

\* every held ticker outside the target set has no share left after the step
OutsidersLiquidated ==
  \A t \in (DOMAIN holdings') \ (DOMAIN calculate_allocation_weights) :
    /\ holdings'[t].shares = 0
    /\ OpenLotShares(holdings'[t].investments) = 0

RECURSIVE SumOfInvestmentAmounts(_, _, _, _)
SumOfInvestmentAmounts(available_cash, w, keys, row) ==
  IF keys = <<>> THEN 0
  ELSE (IF HasPrice(row, Head(keys))
        THEN investment_amount(available_cash, w[Head(keys)]) ELSE 0)
       + SumOfInvestmentAmounts(available_cash, w, Tail(keys), row)

\* C18: when invest_available_cash invests (cash above zero, an eligible
\* ticker of positive weight left after the excluded ones are removed), the
\* adjusted weights sum to 1 within 0.0001 per ticker, and the investment
\* amounts of the tickers sum to no more than the available cash.
InvestAmountsWithinCash ==
  [][(/\ InvestStep
      /\ api = "Portfolio"
      /\ raised = "none"
      /\ cash > 0
      /\ adjusted_keys(last'.allocation_weights, last'.excluded) # <<>>)
       => LET keys == adjusted_keys(last'.allocation_weights, last'.excluded)
              w == adjusted_weights(last'.allocation_weights, last'.excluded)
          IN  /\ Abs(SumOver(w, keys) - 10000) <= Len(keys)
              /\ SumOfInvestmentAmounts(cash, w, keys, date_prices) <= cash]_vars

\* the steps of a simulation over the dates of the price table: one per
\* date, in ascending order, each with the operations of StepOrder
ScheduledSteps == [i \in 1..Len(prices) |-> [date |-> i - 1, operations |-> StepOrder]]

\* C20: a simulation run with valid tickers processes its steps in ascending
\* date order, each as deposit, harvest pass, cash deployment, rebalance
\* check, snapshot, every step working on the ledger and portfolio the
\* previous one left: the run processes every scheduled step and raises
\* nothing.
SimulationStepsInOrder ==
  [][(last'.op = "run_simulation" /\ last'.valid_tickers # {})
       => /\ raised' = "none"
          /\ last'.steps = ScheduledSteps]_vars

\* C21: a simulation run with valid tickers leaves one snapshot for every
\* scheduled date that resolves to a trading day (here every date of the
\* price table), in the order of the dates, and is not aborted.
SnapshotPerScheduledDate ==
  [][(last'.op = "run_simulation" /\ last'.valid_tickers # {})
       => /\ raised' = "none"
          /\ Len(portfolio_history') = Len(prices)
          /\ \A i \in 1..Len(portfolio_history') : portfolio_history'[i].date = i - 1]_vars

\* cash plus the sum over the holdings of total shares x price of the date
CashPlusHoldings ==
  LET RECURSIVE SumValues(_)
      SumValues(S) ==
        IF S = {} THEN 0
        ELSE LET t == CHOOSE x \in S : TRUE
             IN  holdings[t].shares * date_prices[t] + SumValues(S \ {t})
  IN  cash + SumValues(DOMAIN holdings)

\* C22: on a date with a price for every held ticker calculate_total_value
\* is cash plus the sum of total shares x price over the holdings; every
\* snapshot has cash + investments_value = total_value, and the snapshot just
\* taken records the cash and the total value of the portfolio at that moment.
SnapshotValueRoundTrip ==
  /\ (api = "Portfolio" /\ \A t \in DOMAIN holdings : HasPrice(date_prices, t))
       => calculate_total_value(Pf, date_prices) = CashPlusHoldings
  /\ \A i \in 1..Len(portfolio_history) :
       portfolio_history[i].cash + portfolio_history[i].investments_value
         = portfolio_history[i].total_value
  /\ last.op = "update_portfolio_history"
       => LET snapshot == portfolio_history[Len(portfolio_history)]
          IN  /\ snapshot.date = today
              /\ snapshot.cash = cash
              /\ (\A t \in DOMAIN holdings : HasPrice(date_prices, t))
                   => snapshot.total_value = CashPlusHoldings

\* a snapshot has just been taken of a portfolio that holds cash and priced
\* shares of two tickers, after an earlier snapshot
SnapshotValueRoundTripWitness ==
  /\ last.op = "update_portfolio_history"
  /\ Len(portfolio_history) = 2
  /\ cash > 0
  /\ Cardinality({t \in DOMAIN holdings :
                     HasPrice(date_prices, t) /\ holdings[t].shares > 0}) = 2
  /\ portfolio_history[2].investments_value > 0
  /\ portfolio_history[2] # portfolio_history[1]

\* the ledger before is a prefix of the ledger after
IsPrefix(before, after) ==
  /\ Len(before) <= Len(after)
  /\ SubSeq(after, 1, Len(before)) = before

\* C23: the ledger is append-only over a run: the ledger before a step is a
\* prefix of the ledger after it, and across the rebalance check the ledger
\* the run holds afterwards (what check_and_rebalance returns, as
\* run_simulation assigns it) still has the ledger before as a prefix.
LedgerAppendOnly ==
  [][/\ IsPrefix(transactions, transactions')
     /\ CheckStep => IsPrefix(transactions, last'.returned)]_vars

\* the sum of the amounts of the ledger records of one type
RECURSIVE SumOfType(_, _)
SumOfType(txs, type) ==
  IF txs = <<>> THEN 0
  ELSE (IF Head(txs).type = type THEN Head(txs).amount ELSE 0) + SumOfType(Tail(txs), type)

\* the sum of the negative gain_loss values of the sell records
RECURSIVE RealizedLosses(_)
RealizedLosses(txs) ==
  IF txs = <<>> THEN RatInt(0)
  ELSE IF Head(txs).type = "sell" /\ Head(txs).gain_loss.n < 0
  THEN RatAdd(Head(txs).gain_loss, RealizedLosses(Tail(txs)))
  ELSE RealizedLosses(Tail(txs))

\* C24: the performance metrics computed for a run with a snapshot history
\* come from the ledger and the history of that run: total_deposits is the
\* sum of its deposit records, final_value the total value of the last
\* snapshot, total_return their difference, realized_losses the sum of the
\* negative gain_loss values of its sell records.
MetricsFromLedgerAndHistory ==
  [][(last'.op = "calculate_performance_metrics" /\ portfolio_history # <<>>)
       => /\ raised' = "none"
          /\ last'.transactions = transactions
          /\ LET metrics == last'.performance_metrics
                 final_value == portfolio_history[Len(portfolio_history)].total_value
             IN  /\ metrics.total_deposits = SumOfType(transactions, "deposit")
                 /\ metrics.final_value = final_value
                 /\ metrics.total_return = final_value - metrics.total_deposits
                 /\ metrics.realized_losses = RealizedLosses(transactions)]_vars

\* the number of buy records for ticker t among the ledger entries
RECURSIVE BuysOf(_, _)
BuysOf(txs, t) ==
  IF txs = <<>> THEN 0
  ELSE (IF Head(txs).type = "buy" /\ Head(txs).ticker = t THEN 1 ELSE 0)
       + BuysOf(Tail(txs), t)

\* C25: across every operation the lot list of a ticker keeps its lots in
\* place and grows by one lot per executed buy; a lot's remaining shares
\* never increase, its date, price and cost never change, and a sold lot
\* stays sold.
LotsOnlyShrink ==
  [][\A t \in (DOMAIN holdings) \cup (DOMAIN holdings') :
       LET old == LotsOf(holdings, t)
           new == LotsOf(holdings', t)
       IN  /\ t \in DOMAIN holdings => t \in DOMAIN holdings'
           /\ Len(new) = Len(old) + BuysOf(Appended, t)
           /\ \A i \in 1..Len(old) :
                /\ LotRemaining(new[i]) <= LotRemaining(old[i])
                /\ new[i].date = old[i].date
                /\ new[i].price = old[i].price
                /\ new[i].cost = old[i].cost
                /\ old[i].sold => new[i].sold]_vars

\* a buy has just added a lot behind a lot that an earlier sale took a part of
LotsOnlyShrinkWitness ==
  /\ last.op = "buy"
  /\ raised = "none"
  /\ last.ticker \in DOMAIN holdings
  /\ LET investments == holdings[last.ticker].investments
     IN  /\ Len(investments) >= 2
         /\ LotPartlySold(investments[1])
         /\ investments[Len(investments)].date = today
         /\ LotAtInitial(investments[Len(investments)])
         /\ investments[1].date < today

\* the shares the latest step took from lot i of ticker t
SoldOfLot(t, i) ==
  LET old == holdings[t].investments[i]
      new == holdings'[t].investments[i]
  IN  IF new.sold /\ ~old.sold THEN LotRemaining(old)
      ELSE LotRemaining(old) - LotRemaining(new)

\* sold_shares x (sell price - purchase price), summed over the lots of t
RECURSIVE GainLossOfLots(_, _, _)
GainLossOfLots(t, n, price) ==
  IF n = 0 THEN 0
  ELSE SoldOfLot(t, n) * (price - holdings[t].investments[n].price)
       + GainLossOfLots(t, n - 1, price)

\* C26: the realized gain/loss a sell attributes to a lot it consumes, in
\* full or in part, is sold_shares x (sell price - purchase price of the
\* lot): the record of each lot says so to the cent (functions), the one
\* record of the sale carries the sum over its lots (Portfolio).
SellGainLossPerLot ==
  [][(SellStep /\ raised' = "none" /\ last'.ticker \in DOMAIN holdings)
       => LET t == last'.ticker
              price == last'.price
              n == Len(holdings[t].investments)
          IN  IF api = "Portfolio"
              THEN \A k \in 1..Len(Appended) :
                     Appended[k].gain_loss = RatInt(GainLossOfLots(t, n, price))
              ELSE \A i \in 1..n :
                     SoldOfLot(t, i) > 0
                       => \E k \in 1..Len(Appended) :
                            /\ Appended[k].shares = SoldOfLot(t, i)
                            /\ Abs(Appended[k].gain_loss.n
                                     - SoldOfLot(t, i)
                                         * (price - holdings[t].investments[i].price))
                                 <= 100 * Appended[k].gain_loss.d]_vars
\* the calendar period a date lies in, as one number
CalendarPeriod(frequency, d) ==
  IF frequency = "monthly" THEN 12 * d.year + d.month
  ELSE IF frequency = "quarterly" THEN 4 * d.year + (d.month + 2) \div 3
  ELSE d.year

TriggerStep == last.op = "should_rebalance_time"

\* C27: with a previous rebalance date the time trigger fires exactly when
\* the current date lies in a later calendar month, quarter or year than the
\* last rebalance date, whatever the number of days between the two; with no
\* previous rebalance it fires exactly when the current date is at least 90
\* days after the start of the simulation
TimeTriggerByCalendarPeriod ==
  TriggerStep
    => LET i == last.inputs
       IN  IF i.last_rebalance = <<>>
           THEN last.should_rebalance_time
                  <=> i.current_date.days - i.first_date.days >= 90
           ELSE last.should_rebalance_time
                  <=> CalendarPeriod(i.rebalance_frequency, i.current_date)
                        > CalendarPeriod(i.rebalance_frequency, i.last_rebalance[1])

\* one day across a quarter boundary fires the quarterly trigger
TimeTriggerByCalendarPeriodWitness ==
  /\ TriggerStep
  /\ last.inputs.rebalance_frequency = "quarterly"
  /\ last.inputs.last_rebalance # <<>>
  /\ last.inputs.current_date.days - last.inputs.last_rebalance[1].days = 1
  /\ last.should_rebalance_time

\* the instruments of the target set: self.tickers without the excluded ones
TargetSet(excluded) ==
  {tickers[i] : i \in 1..Len(tickers)} \ {excluded[i] : i \in 1..Len(excluded)}

\* market value of the shares held of t at today's prices, 0 when none is held
MarketValue(t) ==
  IF t \in DOMAIN holdings /\ t \in DOMAIN date_prices
  THEN holdings[t].shares * date_prices[t] ELSE 0

\* some instrument of the target set is further than rebalance_threshold
\* percent points from its renormalised target weight, 1 / n of n instruments
DriftAboveThreshold(excluded) ==
  LET T == TargetSet(excluded)
      n == Cardinality(T)
      total_value == calculate_total_value(Pf, date_prices)
  IN  \E t \in T :
        Abs(100 * n * MarketValue(t) - 100 * total_value)
          > rebalance_threshold * n * total_value

\* C28: a rebalance check whose time trigger does not fire rebalances if and
\* only if some instrument of the target set (the allocation without the
\* excluded symbols, renormalised; held or not) is more than
\* rebalance_threshold away from its target weight
DriftTriggerOverTargetSet ==
  [][(/\ CheckStep
      /\ raised' = "none"
      /\ hkeys # <<>>
      /\ calculate_total_value(Pf, date_prices) > 0
      /\ ~should_rebalance_time(today, 0, last'.last_rebalance_date))
       => (last'.executed <=> DriftAboveThreshold(last'.excluded))]_vars

\* the amount a step deposits: the deposit transaction of the simulation
\* loop goes with the same amount added to the cash
Deposited == IF last'.op = "add_cash" THEN last'.amount ELSE 0

RECURSIVE OpenLotCost(_)
OpenLotCost(investments) ==
  IF investments = <<>> THEN 0
  ELSE (IF Head(investments).sold THEN 0
        ELSE LotRemaining(Head(investments)) * Head(investments).price)
       + OpenLotCost(Tail(investments))

\* C30: whenever an instrument has open lots, the cost_basis of its holding
\* is the share-weighted average purchase price of those lots: cost_basis x
\* open shares = sum of shares x price over the open lots, to the cent that
\* the rounding of each buy's amount may move it by
CostBasisIsOpenLotAverage ==
  \A t \in DOMAIN holdings :
    LET lots == holdings[t].investments
        open == OpenLotShares(lots)
    IN  (raised = "none" /\ open > 0)
          => /\ "cost_basis" \in DOMAIN holdings[t]
             /\ Abs(holdings[t].cost_basis.n * open
                    - holdings[t].cost_basis.d * OpenLotCost(lots))
                  <= 100 * Len(lots) * holdings[t].cost_basis.d

====
